---- MODULE Spec2Model ----
(***************************************************************************)
(* Ingestion-chunking-retrieval pipeline of the contract intelligence API. *)
(*                                                                         *)
(*   chunk_text                      src/src/routers/ingest.py             *)
(*   create_embeddings               src/src/routers/ingest.py             *)
(*   generate_embedding_with_retry   src/src/routers/ask_route.py          *)
(*   retrieve_relevant_chunks[_tfidf], ask_about_contract                  *)
(*                                   src/src/routers/ask_route.py          *)
(*   ingest_pdfs                     src/src/routers/ingest.py             *)
(*                                                                         *)
(* Four specifications share the variables: SpecChunk runs the chunker     *)
(* loop, SpecGateway runs the two embedding wrappers, SpecAsk runs one     *)
(* /ask request, SpecIngest runs one ingest request against the store      *)
(* while an /ask request reads it.  A machine that a specification does    *)
(* not run stays idle.                                                     *)
(***************************************************************************)
EXTENDS Integers, Sequences, FiniteSets, TLC

VARIABLES
    \* chunk_text
    text, chunk_size, overlap, start, chunk_index, chunks, ct_pc,
    \* generate_embedding_with_retry
    attempt, ge_calls, ge_delays, ge_error, ge_result, ge_pc,
    \* create_embeddings
    embed_model, emb_chunks, ce_pos, ce_log, embedded_count, failed_count, ce_pc,
    \* ask_about_contract
    query, top_k, doc, doc_chunks, query_embedding, use_tfidf_fallback, vectorizer,
    relevant_chunks, context_parts, citations, gen_calls, ask_status, ask_pc,
    \* ingest_pdfs: the request
    files, file_pos, file_id, next_uuid, document_ids, ing_status, ing_pc,
    \* ingest_pdfs: its database session (objects added, rows of the open transaction)
    doc_obj, new_chunks, tx_documents, tx_chunks,
    \* the committed tables documents and document_chunks
    documents, document_chunks,
    \* the two reads of a concurrent /ask request
    rd_pc, rd_id, rd_doc, rd_chunks,
    \* extract_fields: one entry per concurrent /extract request, and the
    \* committed table extraction_results
    ex_pc, ex_stored_at_call, ex_response, ex_gen_calls, ex_raised, ex_status,
    extraction_results,
    \* get_db: the session generator of each /extract request
    db_attempt, db_open, db_opened, db_yields

chunkVars == <<text, chunk_size, overlap, start, chunk_index, chunks, ct_pc>>
geVars == <<attempt, ge_calls, ge_delays, ge_error, ge_result, ge_pc>>
ceVars == <<embed_model, emb_chunks, ce_pos, ce_log, embedded_count, failed_count, ce_pc>>
askVars == <<query, top_k, doc, doc_chunks, query_embedding, use_tfidf_fallback,
             vectorizer, relevant_chunks, context_parts, citations, gen_calls, ask_status, ask_pc>>
reqVars == <<files, file_pos, file_id, next_uuid, document_ids, ing_status, ing_pc>>
sessionVars == <<doc_obj, new_chunks, tx_documents, tx_chunks>>
storeVars == <<documents, document_chunks>>
readerVars == <<rd_pc, rd_id, rd_doc, rd_chunks>>
ingVars == <<reqVars, sessionVars, storeVars, readerVars>>
extractVars == <<ex_pc, ex_stored_at_call, ex_response, ex_gen_calls, ex_raised, ex_status,
                 extraction_results>>
getdbVars == <<db_attempt, db_open, db_opened, db_yields>>
vars == <<chunkVars, geVars, ceVars, askVars, ingVars, extractVars, getdbVars>>

----------------------------------------------------------------------------
(* Bounds of the model *)

MaxTextLen == 6
MaxChunkSize == 4
MaxBatch == 3
MaxChunks == 3
MaxTopK == 3
MaxFiles == 2

(* Program constants *)

CHUNK_SIZE == 1000
CHUNK_OVERLAP == 200
max_retries == 3
initial_delay == 1
MAX_FILES == 10

\* Scores are fixed-point numbers: 1.0 is ScoreScale (round(score, 4)).
ScoreScale == 10000

----------------------------------------------------------------------------
(* Values *)

\* Python's None for an optional vector: an optional value is a set holding
\* no element (None) or exactly one (the vector).
None == {}

Some(v) == {v}

TheValue(opt) == CHOOSE v \in opt : TRUE

Min(a, b) == IF a < b THEN a ELSE b

Alphabet == {"a", "b"}

Texts == UNION {[1..n -> Alphabet] : n \in 0..MaxTextLen}

\* The document of the end-to-end scenario: 2500 characters.
LongText == [i \in 1..2500 |-> "a"]

\* text[start:end] for 0 <= start: Python clamps the end to len(text)
Slice(s, from, to) == SubSeq(s, from + 1, Min(to, Len(s)))

\* ceil(a / b) for a >= 0 and b > 0
CeilDiv(a, b) == (a + b - 1) \div b

----------------------------------------------------------------------------
(* chunk_text(text, chunk_size, overlap) *)

ChunkIdle ==
    /\ text = <<>>
    /\ chunk_size = 0
    /\ overlap = 0
    /\ start = 0
    /\ chunk_index = 0
    /\ chunks = <<>>
    /\ ct_pc = "idle"

\* The call: any short text with any valid (chunk_size, overlap), or the
\* 2500-character document with the defaults ingest_pdfs calls it with.
ChunkCall ==
    /\ \/ /\ text \in Texts
          /\ chunk_size \in 2..MaxChunkSize
          /\ overlap \in 1..(chunk_size - 1)
       \/ /\ text = LongText
          /\ chunk_size = CHUNK_SIZE
          /\ overlap = CHUNK_OVERLAP
    /\ start = 0
    /\ chunk_index = 0
    /\ chunks = <<>>
    /\ ct_pc = "entry"

text_length == Len(text)

\* Mutant of EndOf: the end is not clamped to the text length.
EndOf_NoClamp(from) == from + chunk_size

\* end = min(start + chunk_size, text_length)
EndOf(from) == Min(from + chunk_size, text_length)

\* Mutant of NextStart: the next chunk starts where the previous one ended.
NextStart_NoOverlap(end) == IF end < text_length THEN end ELSE text_length

\* Mutant of NextStart: the step back is one character short.
NextStart_OffByOne(end) == IF end < text_length THEN end - overlap + 1 ELSE text_length

\* Mutant of NextStart: the step back is taken also at the end of the text.
NextStart_AlwaysBack(end) == end - overlap

\* Mutant of NextStart: the step back is a whole chunk.
NextStart_WholeChunk(end) == IF end < text_length THEN end - chunk_size ELSE text_length

\* start = end - overlap if end < text_length else text_length
NextStart(end) == IF end < text_length THEN end - overlap ELSE text_length

\* lines 61-68: the empty text returns at once, otherwise the loop is entered
ChunkTextBegin ==
    /\ ct_pc = "entry"
    /\ IF text_length = 0
          THEN ct_pc' = "done"
          ELSE ct_pc' = "loop"
    /\ chunks' = <<>>
    /\ start' = 0
    /\ chunk_index' = 0
    /\ UNCHANGED <<text, chunk_size, overlap, geVars, ceVars, askVars, ingVars, extractVars, getdbVars>>

\* lines 70-82: one iteration of the while loop
ChunkTextLoop ==
    /\ ct_pc = "loop"
    /\ start < text_length
    /\ LET end == EndOf(start)
       IN /\ chunks' = Append(chunks, [text |-> Slice(text, start, end),
                                       chunk_index |-> chunk_index,
                                       char_start |-> start,
                                       char_end |-> end])
          /\ chunk_index' = chunk_index + 1
          /\ start' = NextStart(end)
    /\ UNCHANGED <<text, chunk_size, overlap, ct_pc, geVars, ceVars, askVars, ingVars, extractVars, getdbVars>>

\* lines 70, 84: the loop condition fails and the chunks are returned
ChunkTextReturn ==
    /\ ct_pc = "loop"
    /\ ~(start < text_length)
    /\ ct_pc' = "done"
    /\ UNCHANGED <<text, chunk_size, overlap, start, chunk_index, chunks, geVars, ceVars, askVars, ingVars, extractVars, getdbVars>>

ChunkNext == ChunkTextBegin \/ ChunkTextLoop \/ ChunkTextReturn

----------------------------------------------------------------------------
(* The external embedding service: genai.embed_content *)

EmbVals == {<<3, 4>>, <<4, 3>>}

\* str(e) of the exceptions the service call raises
ErrorStrs == {"429 Resource has been exhausted", "Quota exceeded for metric",
              "500 Internal error"}

\* str(KeyError("embedding")): the response holds no "embedding"
KeyErrorStr == "'embedding'"

\* What one call does: a response with a vector, a response without the
\* "embedding" key, or an exception.
Outcomes ==
    [kind : {"ok"}, embedding : EmbVals, msg : {""}]
      \cup [kind : {"malformed"}, embedding : {<<>>}, msg : {KeyErrorStr}]
      \cup [kind : {"raise"}, embedding : {<<>>}, msg : ErrorStrs]

\* "429" in error_str
Has429(error_str) == error_str \in {"429 Resource has been exhausted"}

\* Mutant of HasQuotaLower: "quota" in error_str, without lower(); no message
\* of the service spells it in lower case.
HasQuota_CaseSensitive(error_str) == error_str \in {}

\* "quota" in error_str.lower()
HasQuotaLower(error_str) == error_str \in {"Quota exceeded for metric"}

\* Mutant of IsQuotaError: the "429" test is missing.
IsQuotaError_No429(error_str) == HasQuotaLower(error_str)

\* "429" in error_str or "quota" in error_str.lower()
IsQuotaError(error_str) == Has429(error_str) \/ HasQuotaLower(error_str)

\* Mutant of CatchesException: only what the service call raises is caught,
\* not the KeyError of a response without "embedding".
CatchesException_OnlyCallErrors(error_str) == error_str \in ErrorStrs

\* except Exception as e: every error of the call or of reading the response
CatchesException(error_str) == TRUE

----------------------------------------------------------------------------
(* generate_embedding_with_retry(content, max_retries = 3, initial_delay = 1.0) *)

GenEmbedIdle ==
    /\ attempt = 0
    /\ ge_calls = 0
    /\ ge_delays = <<>>
    /\ ge_error = ""
    /\ ge_result = None
    /\ ge_pc = "idle"

\* The state at the call: the for loop is about to run attempt 0.
GenEmbedInit ==
    /\ attempt = 0
    /\ ge_calls = 0
    /\ ge_delays = <<>>
    /\ ge_error = ""
    /\ ge_result = None
    /\ ge_pc = "try"

\* if attempt < max_retries - 1
ShouldRetry(a) == a < max_retries - 1

\* Mutant of Backoff: the delay does not grow.
Backoff_Constant(a) == initial_delay

\* delay = initial_delay * (2 ** attempt)
Backoff(a) == initial_delay * (2 ^ a)

\* lines 178-202: one iteration of the for loop: the service call and the
\* handler of what it raises (time.sleep(delay) included); once the loop is
\* exhausted, line 202 returns None
GenerateEmbeddingAttempt ==
    /\ ge_pc = "try"
    /\ IF attempt < max_retries
          THEN \E o \in Outcomes :
                  /\ ge_calls' = ge_calls + 1
                  /\ IF o.kind = "ok"
                        THEN /\ ge_result' = Some(o.embedding)
                             /\ ge_pc' = "returned"
                             /\ UNCHANGED <<attempt, ge_delays, ge_error>>
                        ELSE IF ~CatchesException(o.msg)
                        THEN /\ ge_pc' = "raised"
                             /\ ge_error' = o.msg
                             /\ UNCHANGED <<attempt, ge_delays, ge_result>>
                        ELSE /\ ge_error' = o.msg
                             /\ IF IsQuotaError(o.msg)
                                   THEN /\ ge_result' = None
                                        /\ ge_pc' = "returned"
                                        /\ UNCHANGED <<attempt, ge_delays>>
                                   ELSE IF ShouldRetry(attempt)
                                   THEN /\ ge_delays' = Append(ge_delays, Backoff(attempt))
                                        /\ attempt' = attempt + 1
                                        /\ UNCHANGED <<ge_result, ge_pc>>
                                   ELSE /\ ge_result' = None
                                        /\ ge_pc' = "returned"
                                        /\ UNCHANGED <<attempt, ge_delays>>
          ELSE /\ ge_result' = None
               /\ ge_pc' = "returned"
               /\ UNCHANGED <<attempt, ge_calls, ge_delays, ge_error>>
    /\ UNCHANGED <<chunkVars, ceVars, askVars, ingVars, extractVars, getdbVars>>

----------------------------------------------------------------------------
(* create_embeddings(chunks) *)

CreateEmbeddingsIdle ==
    /\ embed_model = FALSE
    /\ emb_chunks = <<>>
    /\ ce_pos = 0
    /\ ce_log = <<>>
    /\ embedded_count = 0
    /\ failed_count = 0
    /\ ce_pc = "idle"

\* The chunk dicts chunk_text hands over: no "embedding" key yet.
BatchOf(n) == [i \in 1..n |-> [chunk_index |-> i - 1,
                               has_embedding |-> FALSE,
                               embedding |-> None]]

\* The state at the call; embed_model is whether EMBED_MODEL is configured.
CreateEmbeddingsInit ==
    /\ embed_model \in BOOLEAN
    /\ emb_chunks \in {BatchOf(n) : n \in 0..MaxBatch}
    /\ ce_pos = 0
    /\ ce_log = <<>>
    /\ embedded_count = 0
    /\ failed_count = 0
    /\ ce_pc = "entry"

\* chunk_data.get("embedding")
GetEmbedding(chunk_data) ==
    IF chunk_data.has_embedding THEN chunk_data.embedding ELSE None

\* Mutant of SetEmbedding: storing None also wipes the vectors stored before.
SetEmbedding_WipesEarlier(cs, i, value) ==
    [j \in 1..Len(cs) |->
        IF j = i THEN [cs[j] EXCEPT !.has_embedding = TRUE, !.embedding = value]
        ELSE IF j < i /\ value = None THEN [cs[j] EXCEPT !.embedding = None]
        ELSE cs[j]]

\* chunk["embedding"] = value
SetEmbedding(cs, i, value) ==
    [cs EXCEPT ![i] = [@ EXCEPT !.has_embedding = TRUE, !.embedding = value]]

\* except Exception as e (inner handler, line 105)
InnerCatches(error_str) == TRUE

\* except Exception as e (outer handler, line 123)
OuterCatches(error_str) == TRUE

\* lines 89-94: without a configured model the chunks are returned untouched
CreateEmbeddingsBegin ==
    /\ ce_pc = "entry"
    /\ IF ~embed_model
          THEN /\ ce_pc' = "returned"
               /\ ce_pos' = ce_pos
          ELSE /\ ce_pc' = "loop"
               /\ ce_pos' = 1
    /\ embedded_count' = 0
    /\ failed_count' = 0
    /\ UNCHANGED <<embed_model, emb_chunks, ce_log, chunkVars, geVars, askVars, ingVars, extractVars, getdbVars>>

\* lines 97-115: one iteration of `for chunk in chunks`: one service call and
\* the handler of what it raises
CreateEmbeddingsChunk ==
    /\ ce_pc = "loop"
    /\ ce_pos <= Len(emb_chunks)
    /\ \E o \in Outcomes :
          /\ ce_log' = Append(ce_log, [chunk_index |-> emb_chunks[ce_pos].chunk_index,
                                       kind |-> o.kind, msg |-> o.msg])
          /\ IF o.kind = "ok"
                THEN /\ emb_chunks' = SetEmbedding(emb_chunks, ce_pos, Some(o.embedding))
                     /\ embedded_count' = embedded_count + 1
                     /\ ce_pos' = ce_pos + 1
                     /\ UNCHANGED <<failed_count, ce_pc>>
                ELSE IF ~InnerCatches(o.msg)
                THEN /\ ce_pc' = IF OuterCatches(o.msg) THEN "returned" ELSE "raised"
                     /\ UNCHANGED <<emb_chunks, embedded_count, failed_count, ce_pos>>
                ELSE IF IsQuotaError(o.msg)
                THEN /\ failed_count' = Len(emb_chunks) - embedded_count
                     /\ ce_pc' = "break"
                     /\ UNCHANGED <<emb_chunks, embedded_count, ce_pos>>
                ELSE /\ failed_count' = failed_count + 1
                     /\ emb_chunks' = SetEmbedding(emb_chunks, ce_pos, None)
                     /\ ce_pos' = ce_pos + 1
                     /\ UNCHANGED <<embedded_count, ce_pc>>
    /\ UNCHANGED <<embed_model, chunkVars, geVars, askVars, ingVars, extractVars, getdbVars>>

\* lines 117-122: after the loop (exhausted, or left by break) the chunks are
\* returned
CreateEmbeddingsReturn ==
    /\ \/ ce_pc = "loop" /\ ce_pos > Len(emb_chunks)
       \/ ce_pc = "break"
    /\ ce_pc' = "returned"
    /\ UNCHANGED <<embed_model, emb_chunks, ce_pos, ce_log, embedded_count,
                   failed_count, chunkVars, geVars, askVars, ingVars, extractVars, getdbVars>>

GatewayNext ==
    \/ GenerateEmbeddingAttempt
    \/ CreateEmbeddingsBegin
    \/ CreateEmbeddingsChunk
    \/ CreateEmbeddingsReturn

----------------------------------------------------------------------------
(* Retrieval: cosine_similarity, retrieve_relevant_chunks[_tfidf] *)

RECURSIVE DotFrom(_, _, _)
DotFrom(a, b, i) == IF i > Len(a) THEN 0 ELSE a[i] * b[i] + DotFrom(a, b, i + 1)

\* np.dot(a, b)
Dot(a, b) == DotFrom(a, b, 1)

\* np.linalg.norm(a): exact for the vectors of the model, whose squared norm
\* is a perfect square
Norm(a) == CHOOSE n \in 0..Dot(a, a) : n * n <= Dot(a, a) /\ (n + 1) * (n + 1) > Dot(a, a)

\* cosine_similarity(vec1, vec2); np.dot of two lengths raises, which the
\* function's own handler turns into 0.0
cosine_similarity(vec1, vec2) ==
    IF Len(vec1) = 0 \/ Len(vec2) = 0 THEN 0
    ELSE IF Len(vec1) # Len(vec2) THEN 0
    ELSE IF Norm(vec1) = 0 \/ Norm(vec2) = 0 THEN 0
    ELSE (Dot(vec1, vec2) * ScoreScale) \div (Norm(vec1) * Norm(vec2))

\* Mutant of InsertDesc: an entry goes before the entries of equal score (the
\* order an ascending sort read backwards gives).
InsertDesc_BeforeEqual(sorted, x) ==
    LET p == Cardinality({i \in 1..Len(sorted) : sorted[i][2] > x[2]})
    IN SubSeq(sorted, 1, p) \o <<x>> \o SubSeq(sorted, p + 1, Len(sorted))

\* One step of the stable sort: x goes after every entry whose score is at
\* least its own.
InsertDesc(sorted, x) ==
    LET p == Cardinality({i \in 1..Len(sorted) : sorted[i][2] >= x[2]})
    IN SubSeq(sorted, 1, p) \o <<x>> \o SubSeq(sorted, p + 1, Len(sorted))

RECURSIVE SortFrom(_, _, _)
SortFrom(scored, i, acc) ==
    IF i > Len(scored) THEN acc ELSE SortFrom(scored, i + 1, InsertDesc(acc, scored[i]))

\* scored_chunks.sort(key=lambda x: x[1], reverse=True): Python's sort is
\* stable, also with reverse=True
SortByScoreDesc(scored) == SortFrom(scored, 1, <<>>)

\* Mutant of Head_k: the slice is missing.
Head_k_NoTruncate(seq, k) == seq

\* seq[:k]
Head_k(seq, k) == SubSeq(seq, 1, Min(k, Len(seq)))

\* if chunk.embedding
HasEmbedding(chunk) == chunk.embedding # None

\* Mutant of ScoreChunks: a chunk without an embedding is scored 0 instead of
\* being left out.
ScoreChunks_ZeroForMissing(q_embedding, cs) ==
    [i \in 1..Len(cs) |->
        <<cs[i], IF HasEmbedding(cs[i])
                    THEN cosine_similarity(q_embedding, TheValue(cs[i].embedding))
                    ELSE 0>>]

\* lines 101-110: the scored chunks, in the order of `chunks`
ScoreChunks(q_embedding, cs) ==
    LET kept == SelectSeq(cs, HasEmbedding)
    IN [i \in 1..Len(kept) |->
           <<kept[i], cosine_similarity(q_embedding, TheValue(kept[i].embedding))>>]

\* retrieve_relevant_chunks(query_embedding, chunks, top_k)
retrieve_relevant_chunks(q_embedding, cs, k) ==
    LET scored_chunks == ScoreChunks(q_embedding, cs)
    IN IF scored_chunks = <<>> THEN <<>>
       ELSE Head_k(SortByScoreDesc(scored_chunks), k)

\* The similarities TfidfVectorizer and sklearn's cosine_similarity can give
\* a chunk that shares a term with the query.
PositiveSims == {2500, 7500}

\* vectorizer.fit_transform(corpus) and the cosine similarities of the query
\* row against the chunk rows.  A corpus without any usable term raises
\* (empty vocabulary); the call may also fail for another reason.  A chunk
\* that shares no term with the query scores 0, any other scores above 0.
TfidfOutcomes(cs, q) ==
    LET vocabulary == q \cup UNION {cs[i].chunk_text : i \in 1..Len(cs)}
        sims == {f \in [1..Len(cs) -> PositiveSims \cup {0}] :
                    \A i \in 1..Len(cs) : (f[i] = 0) <=> (cs[i].chunk_text \cap q = {})}
    IN [raises : {TRUE}, similarities : {<<>>}]
         \cup (IF vocabulary = {} THEN {}
               ELSE [raises : {FALSE}, similarities : sims])

\* The constant score of the last-resort result: 0.5
LastResortScore == ScoreScale \div 2

\* Mutant of LastResort: every chunk is returned, not the first top_k.
LastResort_All(cs, k) == [i \in 1..Len(cs) |-> <<cs[i], LastResortScore>>]

\* lines 166-169: [(chunk, 0.5) for chunk in chunks[:top_k]]
LastResort(cs, k) ==
    LET first == Head_k(cs, k)
    IN [i \in 1..Len(first) |-> <<first[i], LastResortScore>>]

\* Mutant of retrieve_relevant_chunks_tfidf: a failure of the vectorizer
\* leaves no result.
retrieve_relevant_chunks_tfidf_NoLastResort(cs, k, tfidf) ==
    IF cs = <<>> \/ tfidf.raises THEN <<>>
    ELSE Head_k(SortByScoreDesc([i \in 1..Len(cs) |-> <<cs[i], tfidf.similarities[i]>>]), k)

\* retrieve_relevant_chunks_tfidf(query, chunks, top_k), given what the
\* vectorizer did
retrieve_relevant_chunks_tfidf(cs, k, tfidf) ==
    IF cs = <<>> THEN <<>>
    ELSE IF tfidf.raises THEN LastResort(cs, k)
    ELSE Head_k(SortByScoreDesc([i \in 1..Len(cs) |-> <<cs[i], tfidf.similarities[i]>>]), k)

----------------------------------------------------------------------------
(* ask_about_contract(request) *)

\* The usable terms of a text (what the vectorizer keeps of it).
TermSets == {{}, {"term"}}

\* The rows of document_chunks of one document, ordered by chunk_index.
DocChunkLists ==
    UNION {[1..n -> [chunk_index : {0}, chunk_text : TermSets,
                     embedding : {None} \cup {Some(v) : v \in EmbVals}]] : n \in 0..MaxChunks}

\* chunk_index is dense: row i holds index i - 1.
Indexed(cs) == [i \in 1..Len(cs) |-> [cs[i] EXCEPT !.chunk_index = i - 1]]

AskIdle ==
    /\ query = {}
    /\ top_k = 0
    /\ doc = ""
    /\ doc_chunks = <<>>
    /\ query_embedding = None
    /\ use_tfidf_fallback = FALSE
    /\ vectorizer = "not called"
    /\ relevant_chunks = <<>>
    /\ context_parts = <<>>
    /\ citations = <<>>
    /\ gen_calls = 0
    /\ ask_status = ""
    /\ ask_pc = "idle"

\* A validated AskRequest arrives: top_k >= 1.
AskCall ==
    /\ query \in TermSets
    /\ top_k \in 1..MaxTopK
    /\ doc = ""
    /\ doc_chunks = <<>>
    /\ query_embedding = None
    /\ use_tfidf_fallback = FALSE
    /\ vectorizer = "not called"
    /\ relevant_chunks = <<>>
    /\ context_parts = <<>>
    /\ citations = <<>>
    /\ gen_calls = 0
    /\ ask_status = ""
    /\ ask_pc = "check_key"

\* raise HTTPException(...): the request ends with this error
AskFail(error) ==
    /\ ask_status' = error
    /\ ask_pc' = "done"

\* lines 218-222
AskCheckKey ==
    /\ ask_pc = "check_key"
    /\ \E GEMINI_API_KEY \in BOOLEAN :
          IF ~GEMINI_API_KEY
             THEN AskFail("503 not configured")
             ELSE ask_pc' = "validate" /\ UNCHANGED ask_status
    /\ UNCHANGED <<query, top_k, doc, doc_chunks, query_embedding, use_tfidf_fallback,
                   vectorizer, relevant_chunks, context_parts, citations, gen_calls>>
    /\ UNCHANGED <<chunkVars, geVars, ceVars, ingVars, extractVars, getdbVars>>

\* lines 225-231
AskValidateUuid ==
    /\ ask_pc = "validate"
    /\ \E valid_uuid \in BOOLEAN :
          IF ~valid_uuid
             THEN AskFail("400 invalid document_id")
             ELSE ask_pc' = "fetch_document" /\ UNCHANGED ask_status
    /\ UNCHANGED <<query, top_k, doc, doc_chunks, query_embedding, use_tfidf_fallback,
                   vectorizer, relevant_chunks, context_parts, citations, gen_calls>>
    /\ UNCHANGED <<chunkVars, geVars, ceVars, ingVars, extractVars, getdbVars>>

\* Mutant of FetchDocumentError: the extracted text is not checked.
FetchDocumentError_NoTextCheck(row) ==
    IF row = "SQLAlchemyError" THEN "500 database error"
    ELSE IF row = "no row" THEN "404 not found"
    ELSE ""

\* lines 236-253: the error the fetched document ends the request with ("" is
\* none): the query raised, no row has the id, or the row has no
\* extracted_text
FetchDocumentError(row) ==
    IF row = "SQLAlchemyError" THEN "500 database error"
    ELSE IF row = "no row" THEN "404 not found"
    ELSE IF row = "no extracted_text" THEN "400 no extracted text"
    ELSE ""

\* lines 234-253
AskFetchDocument ==
    /\ ask_pc = "fetch_document"
    /\ \E row \in {"SQLAlchemyError", "no row", "no extracted_text", "row"} :
          /\ doc' = row
          /\ IF FetchDocumentError(row) # ""
                THEN AskFail(FetchDocumentError(row))
                ELSE ask_pc' = "fetch_chunks" /\ UNCHANGED ask_status
    /\ UNCHANGED <<query, top_k, doc_chunks, query_embedding, use_tfidf_fallback,
                   vectorizer, relevant_chunks, context_parts, citations, gen_calls>>
    /\ UNCHANGED <<chunkVars, geVars, ceVars, ingVars, extractVars, getdbVars>>

\* lines 256-271
AskFetchChunks ==
    /\ ask_pc = "fetch_chunks"
    /\ \/ /\ AskFail("500 database error")
          /\ UNCHANGED doc_chunks
       \/ \E rows \in DocChunkLists :
             /\ doc_chunks' = Indexed(rows)
             /\ IF rows = <<>>
                   THEN AskFail("400 no chunks")
                   ELSE ask_pc' = "embed_query" /\ UNCHANGED ask_status
    /\ UNCHANGED <<query, top_k, doc, query_embedding, use_tfidf_fallback,
                   vectorizer, relevant_chunks, context_parts, citations, gen_calls>>
    /\ UNCHANGED <<chunkVars, geVars, ceVars, ingVars, extractVars, getdbVars>>

\* lines 274-278: generate_embedding_with_retry(request.query) is called
AskEmbedQuery ==
    /\ ask_pc = "embed_query"
    /\ query_embedding' = None
    /\ use_tfidf_fallback' = FALSE
    /\ ask_pc' = "embedding"
    /\ ge_pc' = "try"
    /\ UNCHANGED <<attempt, ge_calls, ge_delays, ge_error, ge_result>>
    /\ UNCHANGED <<query, top_k, doc, doc_chunks, vectorizer, relevant_chunks,
                   context_parts, citations, gen_calls, ask_status>>
    /\ UNCHANGED <<chunkVars, ceVars, ingVars, extractVars, getdbVars>>

\* Mutant of NoRelevantChunks: the empty result is let through.
NoRelevantChunks_Never(relevant) == FALSE

\* if not relevant_chunks
NoRelevantChunks(relevant) == relevant = <<>>

\* if query_embedding is None: use_tfidf_fallback = True
UseTfidf(q_embedding) == q_embedding = None

\* lines 278-316: the embedding has come back; the strategy is chosen and the
\* chunks are retrieved
AskRetrieve ==
    /\ ask_pc = "embedding"
    /\ ge_pc = "returned"
    /\ query_embedding' = ge_result
    /\ use_tfidf_fallback' = UseTfidf(ge_result)
    /\ IF UseTfidf(ge_result)
          THEN \E tfidf \in TfidfOutcomes(doc_chunks, query) :
                  /\ vectorizer' = IF tfidf.raises THEN "raised" ELSE "fitted"
                  /\ relevant_chunks' =
                        retrieve_relevant_chunks_tfidf(doc_chunks, top_k, tfidf)
          ELSE /\ vectorizer' = "not called"
               /\ relevant_chunks' =
                     retrieve_relevant_chunks(TheValue(ge_result), doc_chunks, top_k)
    /\ IF NoRelevantChunks(relevant_chunks')
          THEN AskFail("400 no relevant chunks")
          ELSE ask_pc' = "generate" /\ UNCHANGED ask_status
    /\ UNCHANGED <<query, top_k, doc, doc_chunks, context_parts, citations, gen_calls>>
    /\ UNCHANGED <<chunkVars, geVars, ceVars, ingVars, extractVars, getdbVars>>

\* lines 322-329: one "[Chunk i]: text" part per retrieved chunk
ContextParts(relevant) ==
    [i \in 1..Len(relevant) |-> [tag |-> relevant[i][1].chunk_index,
                                 chunk_text |-> relevant[i][1].chunk_text]]

\* Mutant of Citations: the citations are listed in the reverse order.
Citations_Reversed(relevant) ==
    [i \in 1..Len(relevant) |->
        [chunk_index |-> relevant[Len(relevant) + 1 - i][1].chunk_index,
         relevance_score |-> relevant[Len(relevant) + 1 - i][2]]]

\* lines 361-371: one Citation per retrieved chunk
Citations(relevant) ==
    [i \in 1..Len(relevant) |-> [chunk_index |-> relevant[i][1].chunk_index,
                                 relevance_score |-> relevant[i][2]]]

\* Mutant of GenerationFailed: the handler goes back to the generation call.
GenerationFailed_Retry ==
    /\ ask_pc' = "generate"
    /\ UNCHANGED ask_status

\* lines 353-358: except Exception: raise HTTPException(503)
GenerationFailed == AskFail("503 AI service unavailable")

\* lines 318-380: the context is built, the generation model is called once,
\* and the answer is returned with its citations
AskGenerate ==
    /\ ask_pc = "generate"
    /\ context_parts' = ContextParts(relevant_chunks)
    /\ gen_calls' = gen_calls + 1
    /\ \E generated \in BOOLEAN :
          IF ~generated
             THEN GenerationFailed /\ UNCHANGED citations
             ELSE /\ citations' = Citations(relevant_chunks)
                  /\ ask_status' = "200"
                  /\ ask_pc' = "done"
    /\ UNCHANGED <<query, top_k, doc, doc_chunks, query_embedding, use_tfidf_fallback,
                   vectorizer, relevant_chunks>>
    /\ UNCHANGED <<chunkVars, geVars, ceVars, ingVars, extractVars, getdbVars>>

AskNext ==
    \/ AskCheckKey
    \/ AskValidateUuid
    \/ AskFetchDocument
    \/ AskFetchChunks
    \/ AskEmbedQuery
    \/ GenerateEmbeddingAttempt
    \/ AskRetrieve
    \/ AskGenerate

----------------------------------------------------------------------------
(* ingest_pdfs(files, db) and the store *)

\* What an uploaded file turns out to be: rejected by validate_file, above
\* MAX_FILE_SIZE, not writable to the upload directory, a file on which
\* extract_text_from_pdf raises, or a PDF whose text is returned.
FileKinds == {"bad extension", "too large", "write error", "unreadable", "pdf"}

\* A text one character longer than CHUNK_SIZE: two chunks.
TwoChunkText == [i \in 1..(CHUNK_SIZE + 1) |-> "a"]

\* The texts extract_text_from_pdf returns: none, blanks only, or a
\* document.
DocTexts == {<<>>, <<" ", " ">>, TwoChunkText}

\* The characters str.strip() removes.
Whitespace == {" "}

\* Mutant of NoTextExtracted: only the empty text is refused.
NoTextExtracted_EmptyOnly(extracted_text) == extracted_text = <<>>

\* not extracted_text or len(extracted_text.strip()) == 0
NoTextExtracted(extracted_text) ==
    \/ extracted_text = <<>>
    \/ \A i \in 1..Len(extracted_text) : extracted_text[i] \in Whitespace

UploadedFiles ==
    [kind : FileKinds \ {"pdf"}, extracted_text : {<<>>}]
      \cup [kind : {"pdf"}, extracted_text : DocTexts]

\* The upload of one request: up to MaxFiles files.
FileLists == UNION {[1..n -> UploadedFiles] : n \in 0..MaxFiles}

IngestIdle ==
    /\ files = <<>>
    /\ file_pos = 0
    /\ file_id = 0
    /\ next_uuid = 0
    /\ document_ids = <<>>
    /\ ing_status = ""
    /\ ing_pc = "idle"
    /\ doc_obj = {}
    /\ new_chunks = <<>>
    /\ tx_documents = {}
    /\ tx_chunks = {}
    /\ documents = {}
    /\ document_chunks = {}

ReaderIdle ==
    /\ rd_pc = "off"
    /\ rd_id = 0
    /\ rd_doc = {}
    /\ rd_chunks = {}

\* An ingest request arrives with a fresh session on an empty store; an /ask
\* request is about to read.
IngestCall ==
    /\ files \in FileLists
    /\ file_pos = 1
    /\ file_id = 0
    /\ next_uuid = 1
    /\ document_ids = <<>>
    /\ ing_status = ""
    /\ ing_pc = "entry"
    /\ doc_obj = {}
    /\ new_chunks = <<>>
    /\ tx_documents = {}
    /\ tx_chunks = {}
    /\ documents = {}
    /\ document_chunks = {}
    /\ rd_pc = "fetch_document"
    /\ rd_id = 0
    /\ rd_doc = {}
    /\ rd_chunks = {}

\* raise HTTPException(...): the request ends with this error
IngestFail(error) ==
    /\ ing_status' = error
    /\ ing_pc' = "done"

\* db.rollback(): the objects of the session and the rows of the open
\* transaction are dropped
Rollback ==
    /\ doc_obj' = {}
    /\ new_chunks' = <<>>
    /\ tx_documents' = {}
    /\ tx_chunks' = {}

\* Mutant of VisibleAfterFlush: the session commits on every flush.
VisibleAfterFlush_Autocommit(committed, flushed) == committed \cup flushed

\* db.flush() in a session made with autocommit=False: the rows are written
\* inside the open transaction, the committed table is as it was
VisibleAfterFlush(committed, flushed) == committed

\* Document(id=file_id, ..., extracted_text=extracted_text, status="processing")
NewDocument(id, file) ==
    [id |-> id, extracted_text |-> file.extracted_text, status |-> "processing"]

\* Mutant of MarkIngested: the status goes back to "uploaded".
MarkIngested_Uploaded(d) == [d EXCEPT !.status = "uploaded"]

\* doc.status = "ingested"
MarkIngested(d) == [d EXCEPT !.status = "ingested"]

\* Mutant of NewChunk: the stored index counts from 1.
NewChunk_OneBased(id, chunk, chunk_data) ==
    [document_id |-> id,
     chunk_text |-> chunk.text,
     chunk_index |-> chunk.chunk_index + 1,
     char_start |-> chunk.char_start,
     char_end |-> chunk.char_end,
     embedding |-> GetEmbedding(chunk_data)]

\* DocumentChunk(document_id=file_id, chunk_text=..., embedding=chunk_data.get("embedding"))
NewChunk(id, chunk, chunk_data) ==
    [document_id |-> id,
     chunk_text |-> chunk.text,
     chunk_index |-> chunk.chunk_index,
     char_start |-> chunk.char_start,
     char_end |-> chunk.char_end,
     embedding |-> GetEmbedding(chunk_data)]

\* lines 143-153: the request is refused without files or with more than 10
IngestBegin ==
    /\ ing_pc = "entry"
    /\ IF Len(files) = 0 THEN IngestFail("400 no files")
       ELSE IF Len(files) > MAX_FILES THEN IngestFail("400 too many files")
       ELSE ing_pc' = "file" /\ UNCHANGED ing_status
    /\ UNCHANGED <<files, file_pos, file_id, next_uuid, document_ids>>
    /\ UNCHANGED <<sessionVars, storeVars, readerVars, chunkVars, geVars, ceVars, askVars, extractVars, getdbVars>>

\* lines 158-193 and 245-260: the next file is validated, given its id, read,
\* measured, written to the upload directory, and its text is extracted.  An
\* HTTPException passes through; any other exception rolls the session back
\* and becomes a 500.
IngestReadFile ==
    /\ ing_pc = "file"
    /\ file_pos <= Len(files)
    /\ LET file == files[file_pos]
       IN IF file.kind = "bad extension"
             THEN /\ IngestFail("400 invalid file type")
                  /\ UNCHANGED <<file_id, next_uuid, sessionVars>>
          ELSE /\ file_id' = next_uuid
               /\ next_uuid' = next_uuid + 1
               /\ IF file.kind = "too large"
                     THEN IngestFail("413 file too large") /\ UNCHANGED sessionVars
                  ELSE IF file.kind = "write error"
                     THEN IngestFail("500 failed to process") /\ Rollback
                  ELSE IF file.kind = "unreadable" \/ NoTextExtracted(file.extracted_text)
                     THEN IngestFail("422 no text extracted") /\ UNCHANGED sessionVars
                  ELSE /\ ing_pc' = "add_document"
                       /\ UNCHANGED <<ing_status, sessionVars>>
    /\ UNCHANGED <<files, file_pos, document_ids>>
    /\ UNCHANGED <<storeVars, readerVars, chunkVars, geVars, ceVars, askVars, extractVars, getdbVars>>

\* lines 195-210 and 247-253: the Document is built with status "processing",
\* added to the session and flushed; a failing flush is a SQLAlchemyError
IngestAddDocument ==
    /\ ing_pc = "add_document"
    /\ LET d == NewDocument(file_id, files[file_pos])
       IN \E flushed \in BOOLEAN :
             IF flushed
                THEN /\ doc_obj' = {d}
                     /\ tx_documents' = tx_documents \cup {d}
                     /\ documents' = VisibleAfterFlush(documents, tx_documents')
                     /\ ing_pc' = "chunk"
                     /\ UNCHANGED <<new_chunks, tx_chunks, ing_status>>
                ELSE /\ Rollback
                     /\ IngestFail("500 database error")
                     /\ UNCHANGED documents
    /\ UNCHANGED <<files, file_pos, file_id, next_uuid, document_ids, document_chunks>>
    /\ UNCHANGED <<readerVars, chunkVars, geVars, ceVars, askVars, extractVars, getdbVars>>

\* line 213: text_chunks = chunk_text(extracted_text), with the defaults
IngestChunkText ==
    /\ ing_pc = "chunk"
    /\ text' = files[file_pos].extracted_text
    /\ chunk_size' = CHUNK_SIZE
    /\ overlap' = CHUNK_OVERLAP
    /\ start' = 0
    /\ chunk_index' = 0
    /\ chunks' = <<>>
    /\ ct_pc' = "entry"
    /\ ing_pc' = "chunking"
    /\ UNCHANGED <<files, file_pos, file_id, next_uuid, document_ids, ing_status>>
    /\ UNCHANGED <<sessionVars, storeVars, readerVars, geVars, ceVars, askVars, extractVars, getdbVars>>

\* line 214: chunks_with_embeddings = create_embeddings(text_chunks); the
\* dicts carry no "embedding" key yet
IngestCreateEmbeddings ==
    /\ ing_pc = "chunking"
    /\ ct_pc = "done"
    /\ embed_model' \in BOOLEAN
    /\ emb_chunks' = BatchOf(Len(chunks))
    /\ ce_pos' = 0
    /\ ce_log' = <<>>
    /\ embedded_count' = 0
    /\ failed_count' = 0
    /\ ce_pc' = "entry"
    /\ ing_pc' = "embedding"
    /\ UNCHANGED <<files, file_pos, file_id, next_uuid, document_ids, ing_status>>
    /\ UNCHANGED <<sessionVars, storeVars, readerVars, chunkVars, geVars, askVars, extractVars, getdbVars>>

\* lines 217-230: one DocumentChunk per chunk is added to the session and
\* the document's status is set to "ingested"; nothing is written yet.  The
\* two calls have returned and their locals are gone.
IngestAddChunks ==
    /\ ing_pc = "embedding"
    /\ ce_pc = "returned"
    /\ new_chunks' = [i \in 1..Len(emb_chunks) |-> NewChunk(file_id, chunks[i], emb_chunks[i])]
    /\ doc_obj' = {MarkIngested(d) : d \in doc_obj}
    /\ ing_pc' = "commit"
    /\ text' = <<>>
    /\ chunk_size' = 0
    /\ overlap' = 0
    /\ start' = 0
    /\ chunk_index' = 0
    /\ chunks' = <<>>
    /\ ct_pc' = "idle"
    /\ embed_model' = FALSE
    /\ emb_chunks' = <<>>
    /\ ce_pos' = 0
    /\ ce_log' = <<>>
    /\ embedded_count' = 0
    /\ failed_count' = 0
    /\ ce_pc' = "idle"
    /\ UNCHANGED <<files, file_pos, file_id, next_uuid, document_ids, ing_status>>
    /\ UNCHANGED <<tx_documents, tx_chunks>>
    /\ UNCHANGED <<storeVars, readerVars, geVars, askVars, extractVars, getdbVars>>

\* lines 231-241 and 247-253: db.commit() flushes the chunks and the status,
\* and the transaction becomes visible as a whole; a commit that fails is a
\* SQLAlchemyError: the session is rolled back and the request ends with 500
IngestCommit ==
    /\ ing_pc = "commit"
    /\ \E committed \in BOOLEAN :
          IF committed
             THEN /\ documents' =
                        {d \in documents : \A o \in doc_obj : d.id # o.id} \cup doc_obj
                  /\ document_chunks' =
                        document_chunks \cup tx_chunks
                          \cup {new_chunks[i] : i \in 1..Len(new_chunks)}
                  /\ doc_obj' = {}
                  /\ new_chunks' = <<>>
                  /\ tx_documents' = {}
                  /\ tx_chunks' = {}
                  /\ document_ids' = Append(document_ids, file_id)
                  /\ file_pos' = file_pos + 1
                  /\ ing_pc' = "file"
                  /\ UNCHANGED ing_status
             ELSE /\ Rollback
                  /\ IngestFail("500 database error")
                  /\ UNCHANGED <<documents, document_chunks, document_ids, file_pos>>
    /\ UNCHANGED <<files, file_id, next_uuid>>
    /\ UNCHANGED <<readerVars, chunkVars, geVars, ceVars, askVars, extractVars, getdbVars>>

\* lines 158, 262-266: every file is done and the ids are returned
IngestReturn ==
    /\ ing_pc = "file"
    /\ file_pos > Len(files)
    /\ ing_status' = "200"
    /\ ing_pc' = "done"
    /\ UNCHANGED <<files, file_pos, file_id, next_uuid, document_ids>>
    /\ UNCHANGED <<sessionVars, storeVars, readerVars, chunkVars, geVars, ceVars, askVars, extractVars, getdbVars>>

\* ask_about_contract, lines 234-247: a concurrent /ask request, in a session
\* of its own, reads the document with some id from the committed table
ReadDocument ==
    /\ rd_pc = "fetch_document"
    /\ \E id \in 1..MaxFiles :
          /\ rd_id' = id
          /\ rd_doc' = {d \in documents : d.id = id}
    /\ rd_pc' = IF rd_doc' = {} THEN "done" ELSE "fetch_chunks"
    /\ UNCHANGED rd_chunks
    /\ UNCHANGED <<reqVars, sessionVars, storeVars, chunkVars, geVars, ceVars, askVars, extractVars, getdbVars>>

\* Mutant of ReadChunks: the request writes the chunks it has read back
\* without their embeddings.
ReadChunks_DropsEmbeddings ==
    /\ rd_pc = "fetch_chunks"
    /\ rd_chunks' = {c \in document_chunks : c.document_id = rd_id}
    /\ document_chunks' = {IF c.document_id = rd_id THEN [c EXCEPT !.embedding = None] ELSE c :
                              c \in document_chunks}
    /\ rd_pc' = "done"
    /\ UNCHANGED <<rd_id, rd_doc, documents>>
    /\ UNCHANGED <<reqVars, sessionVars, chunkVars, geVars, ceVars, askVars, extractVars, getdbVars>>

\* ask_about_contract, lines 256-259: it then reads the document's chunks
ReadChunks ==
    /\ rd_pc = "fetch_chunks"
    /\ rd_chunks' = {c \in document_chunks : c.document_id = rd_id}
    /\ rd_pc' = "done"
    /\ UNCHANGED <<rd_id, rd_doc>>
    /\ UNCHANGED <<reqVars, sessionVars, storeVars, chunkVars, geVars, ceVars, askVars, extractVars, getdbVars>>

\* The steps of the ingest request itself.
IngestRequestNext ==
    \/ IngestBegin
    \/ IngestReadFile
    \/ IngestAddDocument
    \/ IngestChunkText
    \/ ChunkTextBegin
    \/ ChunkTextLoop
    \/ ChunkTextReturn
    \/ IngestCreateEmbeddings
    \/ CreateEmbeddingsBegin
    \/ CreateEmbeddingsChunk
    \/ CreateEmbeddingsReturn
    \/ IngestAddChunks
    \/ IngestCommit
    \/ IngestReturn

\* The ingest request with an /ask request reading the committed tables.
IngestNext ==
    \/ IngestRequestNext
    \/ ReadDocument
    \/ ReadChunks

----------------------------------------------------------------------------
(* Ownership of chunks: deleting a document *)

\* Mutant of CascadeDelete: the chunks of the deleted document stay.
CascadeDelete_None(rows, id) == rows

\* Document.chunks is declared cascade="all, delete-orphan" and
\* document_chunks.document_id is a foreign key with ON DELETE CASCADE: the
\* chunk rows of the deleted document go with it.
CascadeDelete(rows, id) == {c \in rows : c.document_id # id}

\* A committed document is deleted, by a session of its own, at any moment of
\* an ingest request.  The rows of the ingest's open transaction are not in
\* the committed tables and are out of its reach.
DeleteDocument ==
    /\ \E d \in documents :
          /\ documents' = documents \ {d}
          /\ document_chunks' = CascadeDelete(document_chunks, d.id)
    /\ UNCHANGED <<reqVars, sessionVars, readerVars>>
    /\ UNCHANGED <<chunkVars, geVars, ceVars, askVars, extractVars, getdbVars>>

StoreNext ==
    \/ IngestRequestNext
    \/ DeleteDocument

----------------------------------------------------------------------------
(* POST /extract (extract_fields) and its session dependency get_db *)

\* Number of /extract requests in flight for one document.  extract_fields is
\* a plain def: the framework runs each request in its own worker thread.
MaxRequests == 2

Requests == 1..MaxRequests

\* max_retries of get_db.
get_db_max_retries == 3

\* No /extract request has arrived and no result is stored.
ExtractIdle ==
    /\ ex_pc = [r \in Requests |-> "off"]
    /\ ex_stored_at_call = [r \in Requests |-> FALSE]
    /\ ex_response = [r \in Requests |-> None]
    /\ ex_gen_calls = [r \in Requests |-> 0]
    /\ ex_raised = [r \in Requests |-> "none"]
    /\ ex_status = [r \in Requests |-> "none"]
    /\ extraction_results = {}

\* No get_db generator has been created.
GetDbIdle ==
    /\ db_attempt = [r \in Requests |-> 0]
    /\ db_open = [r \in Requests |-> {}]
    /\ db_opened = [r \in Requests |-> 0]
    /\ db_yields = [r \in Requests |-> 0]

\* The row extract_fields builds: a fresh uuid4 id (the requests' ids differ)
\* and the document id of the request, the same document for every request.
NewExtractionResult(r) == [id |-> r, document_id |-> "d1"]

\* db.close() on the session of the current attempt.
CloseSession(r) == [db_open EXCEPT ![r] = @ \ {db_attempt[r]}]

\* A request arrives: the framework creates the get_db generator and runs it
\* to its first yield before it calls extract_fields.
ExtractCall(r) ==
    /\ ex_pc[r] = "off"
    /\ ex_pc' = [ex_pc EXCEPT ![r] = "get_db"]
    /\ ex_stored_at_call' = [ex_stored_at_call EXCEPT ![r] = extraction_results # {}]
    /\ UNCHANGED <<ex_response, ex_gen_calls, ex_raised, ex_status, extraction_results>>
    /\ UNCHANGED <<getdbVars, chunkVars, geVars, ceVars, askVars, ingVars>>

\* get_db: the head of one loop iteration, db = SessionLocal().
GetDbOpen(r) ==
    /\ ex_pc[r] = "get_db"
    /\ db_open' = [db_open EXCEPT ![r] = @ \cup {db_attempt[r]}]
    /\ db_opened' = [db_opened EXCEPT ![r] = @ + 1]
    /\ ex_pc' = [ex_pc EXCEPT ![r] = "select_1"]
    /\ UNCHANGED <<db_attempt, db_yields>>
    /\ UNCHANGED <<ex_stored_at_call, ex_response, ex_gen_calls, ex_raised, ex_status,
                   extraction_results>>
    /\ UNCHANGED <<chunkVars, geVars, ceVars, askVars, ingVars>>

\* get_db: the handler "except OperationalError" followed by "finally" and,
\* when an attempt is left, by the sleep and the next loop iteration.  The
\* handler guards the whole try body, the yield included.
ExceptOperationalError(r) ==
    /\ db_open' = CloseSession(r)
    /\ IF db_attempt[r] < get_db_max_retries - 1
          THEN /\ db_attempt' = [db_attempt EXCEPT ![r] = @ + 1]
               /\ ex_pc' = [ex_pc EXCEPT ![r] = "get_db"]
               /\ UNCHANGED ex_status
          ELSE /\ ex_pc' = [ex_pc EXCEPT ![r] = "done"]
               /\ ex_status' = [ex_status EXCEPT ![r] = "500 internal server error"]
               /\ UNCHANGED db_attempt

\* get_db: the handler "except Exception" followed by "finally": close and
\* re-raise; the response keeps the status the exception carries.
ExceptException(r) ==
    /\ db_open' = CloseSession(r)
    /\ ex_pc' = [ex_pc EXCEPT ![r] = "done"]
    /\ UNCHANGED db_attempt

\* get_db: the connection test and the yield.  The first yield hands the
\* session to extract_fields.  A yield that answers an exception thrown into
\* the generator leaves the generator suspended with its session open; the
\* framework's context manager raises RuntimeError ("generator didn't stop
\* after throw()") and the request fails.
GetDbTest(r) ==
    /\ ex_pc[r] = "select_1"
    /\ \E outcome \in {"ok", "OperationalError", "Exception"} :
          CASE outcome = "ok" ->
                  /\ db_yields' = [db_yields EXCEPT ![r] = @ + 1]
                  /\ IF db_yields[r] = 0
                        THEN /\ ex_pc' = [ex_pc EXCEPT ![r] = "validate"]
                             /\ UNCHANGED ex_status
                        ELSE /\ ex_pc' = [ex_pc EXCEPT ![r] = "suspended"]
                             /\ ex_status' = [ex_status EXCEPT ![r] = "500 internal server error"]
                  /\ UNCHANGED <<db_attempt, db_open>>
            [] outcome = "OperationalError" ->
                  /\ ExceptOperationalError(r)
                  /\ UNCHANGED db_yields
            [] outcome = "Exception" ->
                  /\ ExceptException(r)
                  /\ ex_status' = [ex_status EXCEPT ![r] = "500 internal server error"]
                  /\ UNCHANGED db_yields
    /\ UNCHANGED db_opened
    /\ UNCHANGED <<ex_stored_at_call, ex_response, ex_gen_calls, ex_raised, extraction_results>>
    /\ UNCHANGED <<chunkVars, geVars, ceVars, askVars, ingVars>>

\* extract_fields leaves with an HTTPException of the given status.
ExtractFail(r, status) ==
    /\ ex_status' = [ex_status EXCEPT ![r] = status]
    /\ ex_raised' = [ex_raised EXCEPT ![r] = "HTTPException"]
    /\ ex_pc' = [ex_pc EXCEPT ![r] = "get_db_exit"]

\* extract_fields up to the document checks: model configured, document id a
\* uuid, document found and with text.
ExtractValidate(r) ==
    /\ ex_pc[r] = "validate"
    /\ \E outcome \in {"ok", "503 extraction service not configured",
                       "400 invalid document id", "500 database error",
                       "404 document not found", "400 document has no text"} :
          IF outcome = "ok"
             THEN /\ ex_pc' = [ex_pc EXCEPT ![r] = "check_existing"]
                  /\ UNCHANGED <<ex_status, ex_raised>>
             ELSE ExtractFail(r, outcome)
    /\ UNCHANGED <<ex_stored_at_call, ex_response, ex_gen_calls, extraction_results>>
    /\ UNCHANGED <<getdbVars, chunkVars, geVars, ceVars, askVars, ingVars>>

\* extract_fields: the query for a stored result, outside every try block, and
\* the cached response.  first() has no ORDER BY: any stored row may answer.
ExtractCheckExisting(r) ==
    /\ ex_pc[r] = "check_existing"
    /\ \/ /\ ex_raised' = [ex_raised EXCEPT ![r] = "OperationalError"]
          /\ ex_pc' = [ex_pc EXCEPT ![r] = "get_db_exit"]
          /\ UNCHANGED <<ex_response, ex_status>>
       \/ /\ extraction_results # {}
          /\ \E existing_extraction \in extraction_results :
                ex_response' = [ex_response EXCEPT ![r] = Some(existing_extraction)]
          /\ ex_status' = [ex_status EXCEPT ![r] = "200"]
          /\ ex_pc' = [ex_pc EXCEPT ![r] = "get_db_exit"]
          /\ UNCHANGED ex_raised
       \/ /\ extraction_results = {}
          /\ ex_pc' = [ex_pc EXCEPT ![r] = "generate"]
          /\ UNCHANGED <<ex_response, ex_status, ex_raised>>
    /\ UNCHANGED <<ex_stored_at_call, ex_gen_calls, extraction_results>>
    /\ UNCHANGED <<getdbVars, chunkVars, geVars, ceVars, askVars, ingVars>>

\* extract_fields: one call of the generation model, then json.loads and
\* validate_extraction_data on its answer.
ExtractGenerate(r) ==
    /\ ex_pc[r] = "generate"
    /\ ex_gen_calls' = [ex_gen_calls EXCEPT ![r] = @ + 1]
    /\ \E outcome \in {"ok", "503 extraction service unavailable",
                       "500 invalid json", "500 validation failed"} :
          IF outcome = "ok"
             THEN /\ ex_pc' = [ex_pc EXCEPT ![r] = "store"]
                  /\ UNCHANGED <<ex_status, ex_raised>>
             ELSE ExtractFail(r, outcome)
    /\ UNCHANGED <<ex_stored_at_call, ex_response, extraction_results>>
    /\ UNCHANGED <<getdbVars, chunkVars, geVars, ceVars, askVars, ingVars>>

\* extract_fields: db.add(result), db.commit() and the response; a
\* SQLAlchemyError rolls back and becomes a 500.
ExtractStore(r) ==
    /\ ex_pc[r] = "store"
    /\ \/ /\ extraction_results' = extraction_results \cup {NewExtractionResult(r)}
          /\ ex_response' = [ex_response EXCEPT ![r] = Some(NewExtractionResult(r))]
          /\ ex_status' = [ex_status EXCEPT ![r] = "200"]
          /\ ex_pc' = [ex_pc EXCEPT ![r] = "get_db_exit"]
          /\ UNCHANGED ex_raised
       \/ /\ ExtractFail(r, "500 failed to save extraction results")
          /\ UNCHANGED <<extraction_results, ex_response>>
    /\ UNCHANGED <<ex_stored_at_call, ex_gen_calls>>
    /\ UNCHANGED <<getdbVars, chunkVars, geVars, ceVars, askVars, ingVars>>

\* extract_fields has left: the framework resumes the generator at its yield,
\* with next() after a return and with throw() after an exception.
GetDbExit(r) ==
    /\ ex_pc[r] = "get_db_exit"
    /\ CASE ex_raised[r] = "none" ->
               /\ db_open' = CloseSession(r)
               /\ ex_pc' = [ex_pc EXCEPT ![r] = "done"]
               /\ UNCHANGED <<db_attempt, ex_status>>
         [] ex_raised[r] = "OperationalError" ->
               ExceptOperationalError(r)
         [] ex_raised[r] = "HTTPException" ->
               /\ ExceptException(r)
               /\ UNCHANGED ex_status
    /\ UNCHANGED <<db_opened, db_yields>>
    /\ UNCHANGED <<ex_stored_at_call, ex_response, ex_gen_calls, ex_raised, extraction_results>>
    /\ UNCHANGED <<chunkVars, geVars, ceVars, askVars, ingVars>>

\* The suspended generator is finalised (collected or closed): GeneratorExit
\* at the yield passes both except clauses and runs "finally".
GetDbFinalize(r) ==
    /\ ex_pc[r] = "suspended"
    /\ db_open' = CloseSession(r)
    /\ ex_pc' = [ex_pc EXCEPT ![r] = "done"]
    /\ UNCHANGED <<db_attempt, db_opened, db_yields>>
    /\ UNCHANGED <<ex_stored_at_call, ex_response, ex_gen_calls, ex_raised, ex_status,
                   extraction_results>>
    /\ UNCHANGED <<chunkVars, geVars, ceVars, askVars, ingVars>>

ExtractNext ==
    \E r \in Requests :
       \/ ExtractCall(r)
       \/ GetDbOpen(r)
       \/ GetDbTest(r)
       \/ ExtractValidate(r)
       \/ ExtractCheckExisting(r)
       \/ ExtractGenerate(r)
       \/ ExtractStore(r)
       \/ GetDbExit(r)
       \/ GetDbFinalize(r)

----------------------------------------------------------------------------
(* Specifications *)

\* One call of chunk_text.
ChunkInit ==
    ChunkCall /\ GenEmbedIdle /\ CreateEmbeddingsIdle /\ AskIdle /\ IngestIdle /\ ReaderIdle
    /\ ExtractIdle /\ GetDbIdle

SpecChunk == ChunkInit /\ [][ChunkNext]_vars

\* One call of chunk_text that is not suspended for ever: the interpreter
\* keeps running the loop.
SpecChunkFair == SpecChunk /\ WF_vars(ChunkNext)

\* One call of the Embedding Gateway: a single embed or a batch.
GatewayInit ==
    /\ ChunkIdle
    /\ AskIdle
    /\ IngestIdle
    /\ ReaderIdle
    /\ ExtractIdle
    /\ GetDbIdle
    /\ \/ GenEmbedInit /\ CreateEmbeddingsIdle
       \/ GenEmbedIdle /\ CreateEmbeddingsInit

SpecGateway == GatewayInit /\ [][GatewayNext]_vars

\* One /ask request.
AskInit ==
    AskCall /\ ChunkIdle /\ GenEmbedIdle /\ CreateEmbeddingsIdle /\ IngestIdle /\ ReaderIdle
    /\ ExtractIdle /\ GetDbIdle

SpecAsk == AskInit /\ [][AskNext]_vars

\* One ingest request, with an /ask request reading the store at any moment.
IngestInit ==
    /\ IngestCall /\ ChunkIdle /\ GenEmbedIdle /\ CreateEmbeddingsIdle /\ AskIdle
    /\ ExtractIdle /\ GetDbIdle

SpecIngest == IngestInit /\ [][IngestNext]_vars

\* One ingest request with committed documents deleted at any moment.
SpecStore == IngestInit /\ [][StoreNext]_vars

\* Concurrent /extract requests for one document, each with its own session
\* from get_db.
ExtractInit ==
    /\ ExtractIdle /\ GetDbIdle
    /\ ChunkIdle /\ GenEmbedIdle /\ CreateEmbeddingsIdle /\ AskIdle /\ IngestIdle /\ ReaderIdle

SpecExtract == ExtractInit /\ [][ExtractNext]_vars

----------------------------------------------------------------------------
(* Claims: chunk_text *)

\* The character spans of the chunks, in order.
Spans == [i \in 1..Len(chunks) |-> <<chunks[i].char_start, chunks[i].char_end>>]

\* C1: for a non-empty text and 0 < overlap < chunk_size, the returned chunks
\* cover [0, len(text)) without a gap (the first starts at 0, each next one
\* starts no later than the previous end, every position lies in a chunk),
\* each next chunk starts exactly `overlap` characters before the previous
\* end, and the last chunk ends at len(text); 2500 characters with
\* (1000, 200) give [0,1000), [800,1800), [1600,2500).
C1_CoverageAndOverlap ==
    (ct_pc = "done" /\ text_length > 0) =>
        /\ chunks # <<>>
        /\ chunks[1].char_start = 0
        /\ \A i \in 1..(Len(chunks) - 1) :
              /\ chunks[i + 1].char_start <= chunks[i].char_end
              /\ chunks[i + 1].char_start = chunks[i].char_end - overlap
        /\ \A p \in 0..(text_length - 1) :
              \E i \in 1..Len(chunks) :
                  chunks[i].char_start <= p /\ p < chunks[i].char_end
        /\ chunks[Len(chunks)].char_end = text_length
        /\ (text_length = 2500 /\ chunk_size = 1000 /\ overlap = 200) =>
              /\ Spans = << <<0, 1000>>, <<800, 1800>>, <<1600, 2500>> >>
              /\ Len(chunks[3].text) = 900

\* Three or more chunks were returned, the last one shorter than chunk_size.
C1_Witness ==
    /\ ct_pc = "done"
    /\ Len(chunks) >= 3
    /\ chunks[Len(chunks)].char_end - chunks[Len(chunks)].char_start < chunk_size
    /\ chunks[2].char_start = chunks[1].char_end - overlap

\* C2: the empty text returns zero chunks (the call returns, it does not
\* fail), and a non-empty text no longer than chunk_size returns exactly one
\* chunk, spanning [0, len(text)).
C2_EmptyAndShortText ==
    /\ (ct_pc \in {"entry", "loop"} /\ text_length = 0) => ct_pc = "entry"
    /\ ct_pc = "done" =>
          /\ text_length = 0 => chunks = <<>>
          /\ (0 < text_length /\ text_length <= chunk_size) =>
                /\ Len(chunks) = 1
                /\ chunks[1].char_start = 0
                /\ chunks[1].char_end = text_length
                /\ chunks[1].text = text

\* A text shorter than chunk_size came back as one chunk.
C2_Witness ==
    /\ ct_pc = "done"
    /\ 0 < text_length
    /\ text_length < chunk_size
    /\ Len(chunks) = 1

\* C3: a text longer than chunk_size gives
\* ceil((len(text) - overlap) / (chunk_size - overlap)) chunks; a non-empty
\* text no longer than chunk_size gives one.
C3_ChunkCount ==
    ct_pc = "done" =>
        /\ text_length > chunk_size =>
              Len(chunks) = CeilDiv(text_length - overlap, chunk_size - overlap)
        /\ (0 < text_length /\ text_length <= chunk_size) => Len(chunks) = 1

\* A long text whose length is no multiple of the stride: the ceiling counts.
C3_Witness ==
    /\ ct_pc = "done"
    /\ text_length > chunk_size
    /\ (text_length - overlap) % (chunk_size - overlap) # 0
    /\ Len(chunks) >= 3

----------------------------------------------------------------------------
(* Claims: the Embedding Gateway *)

\* The service's quota / rate-limit failures, as the service words them.
QuotaFailures == {"429 Resource has been exhausted", "Quota exceeded for metric"}

\* Every other failure: an exception of the call, or a malformed response.
GenericFailures == (ErrorStrs \cup {KeyErrorStr}) \ QuotaFailures

\* The calls create_embeddings made for chunk c.
CallsFor(c) == {k \in 1..Len(ce_log) : ce_log[k].chunk_index = c}

\* C5: in create_embeddings, once the call for chunk i fails with a quota /
\* rate-limit error no call follows it, and chunk i and every later chunk
\* have an absent embedding; a quota failure on the first chunk of N leaves
\* exactly 1 call and N absent embeddings.
C5_BatchQuotaStops ==
    \A k \in 1..Len(ce_log) :
        ce_log[k].msg \in QuotaFailures =>
            /\ k = Len(ce_log)
            /\ ~ENABLED CreateEmbeddingsChunk
            /\ \A j \in 1..Len(emb_chunks) :
                  emb_chunks[j].chunk_index >= ce_log[k].chunk_index =>
                      GetEmbedding(emb_chunks[j]) = None
            /\ ce_log[k].chunk_index = 0 =>
                  /\ Len(ce_log) = 1
                  /\ \A j \in 1..Len(emb_chunks) : GetEmbedding(emb_chunks[j]) = None

\* A batch of three whose second call hit the quota has returned: two calls,
\* the first chunk embedded.
C5_Witness ==
    /\ ce_pc = "returned"
    /\ Len(emb_chunks) = 3
    /\ Len(ce_log) = 2
    /\ ce_log[2].msg \in QuotaFailures
    /\ GetEmbedding(emb_chunks[1]) # None
    /\ GetEmbedding(emb_chunks[3]) = None

\* C6: when every call fails with a generic error, the single embed makes
\* exactly 3 attempts, sleeping 1 and then 2 time units between them, then
\* returns absent; after it has returned it calls the service no more.
C6_GenericRetries ==
    /\ (ge_pc = "try" /\ ge_error \in GenericFailures) =>
          /\ ge_calls = attempt
          /\ ge_calls < max_retries
          /\ ge_delays = [i \in 1..ge_calls |-> 2 ^ (i - 1)]
    /\ (ge_pc = "returned" /\ ge_result = None /\ ge_error \in GenericFailures) =>
          /\ ge_calls = 3
          /\ ge_delays = <<1, 2>>
    /\ ge_pc = "returned" => ~ENABLED GenerateEmbeddingAttempt

\* Three generic failures in a row: the embed gave up.
C6_Witness ==
    /\ ge_pc = "returned"
    /\ ge_result = None
    /\ ge_error = "500 Internal error"
    /\ ge_calls = 3

\* C7: create_embeddings retries a chunk whose call fails with a generic
\* error: a chunk it marks absent after generic failures was tried 3 times.
C7_BatchRetriesGeneric ==
    \A j \in 1..Len(emb_chunks) :
        (emb_chunks[j].has_embedding /\ emb_chunks[j].embedding = None) =>
            Cardinality(CallsFor(emb_chunks[j].chunk_index)) = max_retries

\* C8: in the single embed a quota / rate-limit failure ends the operation
\* at once: absent is returned, no call follows, and no delay is slept after
\* it (the delays are those of the generic failures before it).
C8_SingleQuotaImmediate ==
    ge_error \in QuotaFailures =>
        /\ ge_pc = "returned"
        /\ ge_result = None
        /\ ~ENABLED GenerateEmbeddingAttempt
        /\ Len(ge_delays) = ge_calls - 1
        /\ attempt = ge_calls - 1

\* A quota failure on the second attempt: two calls, one delay.
C8_Witness ==
    /\ ge_error \in QuotaFailures
    /\ ge_pc = "returned"
    /\ ge_calls = 2
    /\ ge_delays = <<1>>

\* C9: whatever the service does (success, generic failure, quota failure,
\* malformed response), neither wrapper raises: each one goes on until it
\* returns, the single embed with a vector or absent, the batch with every
\* chunk it was given.
C9_NeverRaises ==
    /\ ge_pc # "raised"
    /\ ce_pc # "raised"
    /\ ge_pc = "try" => ENABLED GenerateEmbeddingAttempt
    /\ ge_pc = "returned" => (ge_result = None \/ ge_result \in {Some(v) : v \in EmbVals})
    /\ ce_pc \in {"entry", "loop", "break"} =>
          ENABLED (CreateEmbeddingsBegin \/ CreateEmbeddingsChunk \/ CreateEmbeddingsReturn)
    /\ ce_pc = "returned" =>
          [j \in 1..Len(emb_chunks) |-> emb_chunks[j].chunk_index] =
              [j \in 1..Len(emb_chunks) |-> j - 1]

\* The single embed returned absent after a malformed response on its last
\* attempt.
C9_Witness ==
    /\ ge_pc = "returned"
    /\ ge_error = KeyErrorStr
    /\ ge_calls = 3
    /\ ge_result = None

----------------------------------------------------------------------------
(* Claims: retrieval in an /ask request *)

\* The request has retrieved (or tried to).
Retrieved == ask_pc \in {"generate", "done"} /\ ge_pc = "returned"

\* C4: when the document has chunks, none of them with an embedding, and the
\* chunks share vocabulary with the query, the request scores lexically and
\* retrieves a non-empty result, also when the query itself was embedded: it
\* does not end in the "no relevant chunks" error.
C4_LexicalWhenNoChunkEmbedding ==
    (/\ Retrieved
     /\ doc_chunks # <<>>
     /\ \A i \in 1..Len(doc_chunks) : doc_chunks[i].embedding = None
     /\ \E i \in 1..Len(doc_chunks) : doc_chunks[i].chunk_text \cap query # {})
      => /\ use_tfidf_fallback
         /\ relevant_chunks # <<>>
         /\ ask_status # "400 no relevant chunks"

\* C10: whichever strategy ran, the retrieved sequence is in descending order
\* of score, and entries of equal score are in ascending order of
\* chunk_index; the order is thereby fixed by the scores and the indices.
C10_SortedByScoreThenIndex ==
    \A i \in 1..Len(relevant_chunks) : \A j \in 1..Len(relevant_chunks) :
        i < j =>
            /\ relevant_chunks[i][2] >= relevant_chunks[j][2]
            /\ relevant_chunks[i][2] = relevant_chunks[j][2] =>
                  relevant_chunks[i][1].chunk_index < relevant_chunks[j][1].chunk_index

\* The vector strategy returned chunks 0 and 2, of equal score, ahead of
\* chunk 1, which scored less.
C10_Witness ==
    /\ Retrieved
    /\ ~use_tfidf_fallback
    /\ Len(doc_chunks) = 3
    /\ Len(relevant_chunks) = 2
    /\ relevant_chunks[1][1].chunk_index = 0
    /\ relevant_chunks[2][1].chunk_index = 2
    /\ relevant_chunks[1][2] = relevant_chunks[2][2]
    /\ HasEmbedding(doc_chunks[2])

\* A chunk row that holds a vector.
Embedded(chunk) == chunk.embedding # {}

\* The chunks the strategy in use can score: every chunk for the lexical
\* strategy, the chunks holding a vector for the vector strategy.
Available ==
    IF use_tfidf_fallback THEN doc_chunks ELSE SelectSeq(doc_chunks, Embedded)

\* The chunks of the retrieved entries, in order.
RetrievedChunks == [i \in 1..Len(relevant_chunks) |-> relevant_chunks[i][1]]

C12_QuotaFallsBackToLexical ==
    (Retrieved /\ ge_error \in QuotaFailures) =>
        /\ doc = "row"
        /\ doc_chunks # <<>>
        /\ query_embedding = None
        /\ use_tfidf_fallback
        /\ vectorizer \in {"raised", "fitted"}
        /\ relevant_chunks # <<>>
        /\ ask_pc = "done" =>
              /\ gen_calls = 1
              /\ ask_status \in {"200", "503 AI service unavailable"}
              /\ ask_status = "200" => citations # <<>>

\* The quota failure came on the first call and the request succeeded.
C12_Witness ==
    /\ ge_error \in QuotaFailures
    /\ ge_calls = 1
    /\ use_tfidf_fallback
    /\ ask_status = "200"
    /\ citations # <<>>

\* The fetched document has no extracted text.
NoText == doc = "no extracted_text"

\* The chunk query ran and came back empty.
NoChunks ==
    /\ doc = "row"
    /\ ask_pc # "fetch_chunks"
    /\ ask_status # "500 database error"
    /\ doc_chunks = <<>>

\* C15: a request on a document without extracted text, or without chunks,
\* has ended with the 400 of its case; neither the embedding service nor the
\* generation model was called, and the request takes no further step.
C15_NoTextOrChunksIsTerminal ==
    /\ (NoText \/ NoChunks) =>
          /\ ask_pc = "done"
          /\ ask_status = (IF NoText THEN "400 no extracted text" ELSE "400 no chunks")
          /\ ge_pc = "idle"
          /\ ge_calls = 0
          /\ gen_calls = 0
          /\ ~ENABLED AskNext
    /\ (ge_pc # "idle" \/ gen_calls > 0) => (doc = "row" /\ doc_chunks # <<>>)

\* The document had no extracted text and the request ended.
C15_Witness ==
    /\ NoText
    /\ ask_pc = "done"
    /\ ask_status = "400 no extracted text"

\* C16: the generation model is called at most once in a request; when that
\* call fails the request has ended with 503, without citations, and takes
\* no further step.
C16_GenerationOnceNoRetry ==
    /\ gen_calls <= 1
    /\ gen_calls = 1 =>
          /\ ask_pc = "done"
          /\ ask_status \in {"200", "503 AI service unavailable"}
          /\ ~ENABLED AskNext
    /\ ask_status = "503 AI service unavailable" =>
          /\ gen_calls = 1
          /\ citations = <<>>

\* The generation call failed after a vector retrieval.
C16_Witness ==
    /\ ask_status = "503 AI service unavailable"
    /\ gen_calls = 1
    /\ relevant_chunks # <<>>
    /\ ~use_tfidf_fallback

\* C17: in a successful request the citations, the parts of the context and
\* the retrieved entries are as many and pair up position by position: the
\* i-th citation and the i-th context part are about the i-th retrieved
\* chunk (its index, its score, its text), in the ranked order.
C17_CitationsFollowRanking ==
    ask_status = "200" =>
        /\ relevant_chunks # <<>>
        /\ Len(citations) = Len(relevant_chunks)
        /\ Len(context_parts) = Len(relevant_chunks)
        /\ \A i \in 1..Len(relevant_chunks) :
              /\ citations[i].chunk_index = relevant_chunks[i][1].chunk_index
              /\ citations[i].relevance_score = relevant_chunks[i][2]
              /\ context_parts[i].tag = relevant_chunks[i][1].chunk_index
              /\ context_parts[i].chunk_text = relevant_chunks[i][1].chunk_text

\* A successful request whose ranking is not the document order: chunk 1
\* is cited ahead of chunk 0.
C17_Witness ==
    /\ ask_status = "200"
    /\ Len(citations) >= 2
    /\ citations[1].chunk_index = 1
    /\ citations[2].chunk_index = 0
    /\ citations[1].relevance_score > citations[2].relevance_score

C19_VectorSkipsUnembedded ==
    (Retrieved /\ ~use_tfidf_fallback) =>
        /\ \A i \in 1..Len(relevant_chunks) : relevant_chunks[i][1].embedding # {}
        /\ \A j \in 1..Len(doc_chunks) :
              doc_chunks[j].embedding = {} =>
                  \A i \in 1..Len(relevant_chunks) :
                      relevant_chunks[i][1].chunk_index # doc_chunks[j].chunk_index

\* Three chunks, the second without a vector, top_k = 3: the other two came
\* back.
C19_Witness ==
    /\ Retrieved
    /\ ~use_tfidf_fallback
    /\ Len(doc_chunks) = 3
    /\ doc_chunks[2].embedding = {}
    /\ top_k = 3
    /\ Len(relevant_chunks) = 2

----------------------------------------------------------------------------
(* Claims: ingest and the store *)

\* The chunk rows of document d among `rows`.
ChunksOf(d, rows) == {c \in rows : c.document_id = d.id}

\* `rows` is the whole chunk set of document d: one row per index 0..n-1,
\* the first starting at 0, each next one starting inside or at the end of
\* the one before, the last ending where the text ends, each holding its
\* span of the text.
WholeChunkSet(d, rows) ==
    LET n == Cardinality(rows)
        Row(i) == CHOOSE c \in rows : c.chunk_index = i
    IN /\ n >= 1
       /\ \A i \in 0..(n - 1) : Cardinality({c \in rows : c.chunk_index = i}) = 1
       /\ Row(0).char_start = 0
       /\ Row(n - 1).char_end = Len(d.extracted_text)
       /\ \A i \in 0..(n - 2) : Row(i + 1).char_start <= Row(i).char_end
       /\ \A c \in rows :
             c.chunk_text = SubSeq(d.extracted_text, c.char_start + 1, c.char_end)

C14_RequestAtomic ==
    (ing_pc = "done" /\ ing_status # "200") =>
        /\ documents = {}
        /\ document_chunks = {}

\* The statuses of a document.
Statuses == {"uploaded", "processing", "ingested", "failed"}

\* One step along uploaded -> processing -> ingested, or into failed.
Moves(from, to) ==
    \/ from = to
    \/ <<from, to>> \in {<<"uploaded", "processing">>, <<"processing", "ingested">>,
                         <<"uploaded", "failed">>, <<"processing", "failed">>}

\* e is d after a step: the same fields, the status moved forward or not at
\* all.
SameDocumentLater(d, e) ==
    /\ e.id = d.id
    /\ e.extracted_text = d.extracted_text
    /\ Moves(d.status, e.status)

\* C20: in every step, a document of the session or of the committed table
\* that is still there afterwards has the same id and text and a status that
\* stayed or moved one step along uploaded -> processing -> ingested (or to
\* failed); a committed document stays; and a document that appears is
\* created as "uploaded" or "processing".
C20_StatusOnlyMovesForward ==
    [][/\ \A d \in doc_obj : \A e \in doc_obj' :
              e.id = d.id => SameDocumentLater(d, e)
       /\ \A d \in doc_obj \cup tx_documents : \A e \in documents' :
              e.id = d.id => SameDocumentLater(d, e)
       /\ \A d \in documents :
              /\ \E e \in documents' : e.id = d.id
              /\ \A e \in documents' : e.id = d.id => SameDocumentLater(d, e)
       /\ \A e \in doc_obj' :
              /\ e.status \in Statuses
              /\ (\A d \in doc_obj : d.id # e.id) => e.status \in {"uploaded", "processing"}
      ]_vars

\* The first document is committed as "ingested" and the second one has just
\* been set to "ingested" in the session.
C20_Witness ==
    /\ ing_pc = "commit"
    /\ \E d \in documents : d.status = "ingested" /\ d.id = 1
    /\ \E d \in doc_obj : d.status = "ingested" /\ d.id = 2
    /\ \E d \in tx_documents : d.status = "processing" /\ d.id = 2

----------------------------------------------------------------------------
(* Claims: the chunker loop *)

\* C24: every chunk after the first ends strictly beyond the end of the one
\* before (so none lies wholly inside its predecessor), only the last chunk
\* ends at len(text), and once a chunk has ended at len(text) the loop emits
\* no further chunk.
C24_NoDuplicateTail ==
    /\ \A i \in 1..(Len(chunks) - 1) :
          /\ chunks[i + 1].char_end > chunks[i].char_end
          /\ chunks[i].char_end < text_length
    /\ (chunks # <<>> /\ chunks[Len(chunks)].char_end = text_length) =>
          /\ start = text_length
          /\ ~ENABLED ChunkTextLoop
    /\ (ct_pc = "done" /\ chunks # <<>>) => chunks[Len(chunks)].char_end = text_length

\* The last of several chunks ended at len(text): a step back by the overlap
\* from there would have started one more chunk inside it.
C24_Witness ==
    /\ ct_pc = "done"
    /\ Len(chunks) >= 2
    /\ chunks[Len(chunks)].char_end = text_length
    /\ chunks[Len(chunks)].char_start < text_length - overlap

\* C25: every call of chunk_text returns; each iteration of the loop moves
\* `start` strictly forward, never beyond len(text), and the loop is left
\* only when `start` has reached len(text).
C25_ChunkLoopTerminates ==
    /\ <>(ct_pc = "done")
    /\ [][/\ (ct_pc = "loop" /\ chunks' # chunks) =>
                 (start < start' /\ start' <= text_length)
          /\ (ct_pc = "loop" /\ ct_pc' = "done") => start = text_length
         ]_vars

\* A call that went three times round the loop has returned.
C25_Witness ==
    /\ ct_pc = "done"
    /\ Len(chunks) = 3
    /\ start = text_length
    /\ text_length <= MaxTextLen

----------------------------------------------------------------------------
(* Claims: empty retrieval, and generic failures in a batch *)

\* C27: when retrieval comes back empty the request has ended with the 400
\* "no relevant chunks", the generation model was not called, and the
\* request takes no further step.
C27_EmptyRetrievalIsTerminal ==
    (Retrieved /\ relevant_chunks = <<>>) =>
        /\ ask_pc = "done"
        /\ ask_status = "400 no relevant chunks"
        /\ gen_calls = 0
        /\ context_parts = <<>>
        /\ citations = <<>>
        /\ ~ENABLED AskNext

\* The vector strategy found no chunk with a vector in a document of two
\* chunks.
C27_Witness ==
    /\ Retrieved
    /\ ~use_tfidf_fallback
    /\ Len(doc_chunks) = 2
    /\ relevant_chunks = <<>>
    /\ ask_pc = "done"

\* C28: in create_embeddings the calls go through the chunks in chunk_index
\* order, one call per chunk; a generic failure on a chunk leaves that chunk
\* with an absent embedding and the loop goes on to the next chunk (unless
\* no chunk is left); and in every step a chunk that holds a vector keeps
\* exactly that vector and every chunk keeps its index.
C28_GenericFailureIsLocal ==
    /\ [](/\ \A k \in 1..Len(ce_log) : ce_log[k].chunk_index = k - 1
          /\ \A k \in 1..Len(ce_log) :
                ce_log[k].msg \in GenericFailures =>
                    /\ emb_chunks[k].has_embedding
                    /\ emb_chunks[k].embedding = {}
                    /\ ce_pc \in {"loop", "break", "returned"}
                    /\ (ce_pc = "loop" /\ k = Len(ce_log)) => ce_pos = k + 1
                    /\ (ce_pc = "loop" /\ k = Len(ce_log) /\ k < Len(emb_chunks)) =>
                          ENABLED CreateEmbeddingsChunk
          /\ (ce_pc = "returned" /\ Len(ce_log) < Len(emb_chunks)) =>
                \/ ce_log = <<>> /\ ~embed_model
                \/ ce_log # <<>> /\ ce_log[Len(ce_log)].msg \in QuotaFailures)
    /\ [][\A j \in 1..Len(emb_chunks) :
              emb_chunks[j].embedding # {} =>
                  /\ Len(emb_chunks') = Len(emb_chunks)
                  /\ emb_chunks'[j] = emb_chunks[j]]_vars

\* A batch of three: the first chunk was embedded, the second failed with a
\* generic error, the third was embedded after it.
C28_Witness ==
    /\ ce_pc = "returned"
    /\ Len(ce_log) = 3
    /\ ce_log[2].msg \in GenericFailures
    /\ emb_chunks[1].embedding # {}
    /\ emb_chunks[2].embedding = {}
    /\ emb_chunks[3].embedding # {}

----------------------------------------------------------------------------
(* Claims: what ingest stores *)

\* Extraction gave nothing to store: it raised, or the text is empty or
\* blank.
NothingExtracted(file) ==
    \/ file.kind = "unreadable"
    \/ file.kind = "pdf" /\ \A i \in 1..Len(file.extracted_text) : file.extracted_text[i] = " "

\* Every document the session or the store holds.
AllDocuments == documents \cup tx_documents \cup doc_obj

\* Every chunk the session or the store holds.
AllChunks == document_chunks \cup tx_chunks \cup {new_chunks[i] : i \in 1..Len(new_chunks)}

\* C22: a file whose extraction raises, or returns an empty or blank text,
\* ends the request with 422; no Document and no DocumentChunk with that
\* file's id is in the session or in the store, then or ever; and a document
\* is only built from a text with something in it.
C22_NoTextIsRejected ==
    /\ (ing_pc \in {"add_document", "chunk", "chunking", "embedding", "commit"}) =>
          ~NothingExtracted(files[file_pos])
    /\ (ing_pc = "done" /\ file_pos <= Len(files) /\ NothingExtracted(files[file_pos])) =>
          /\ ing_status = "422 no text extracted"
          /\ \A d \in AllDocuments : d.id # file_id
          /\ \A c \in AllChunks : c.document_id # file_id
    /\ ing_status = "422 no text extracted" => NothingExtracted(files[file_pos])
    /\ \A d \in AllDocuments : \E i \in 1..Len(d.extracted_text) : d.extracted_text[i] # " "

\* The second file of a request held blanks only; the first one is stored.
C22_Witness ==
    /\ ing_status = "422 no text extracted"
    /\ file_pos = 2
    /\ files[2].extracted_text = <<" ", " ">>
    /\ Cardinality(documents) = 1

\* C26: the chunks chunk_text has built, the DocumentChunk objects of the
\* session and the stored chunks of every document carry the indices 0..n-1
\* in order, one chunk per index; char_start and char_end do not decrease
\* with the index; 0 <= char_start < char_end <= len(text); and each chunk's
\* text is text[char_start:char_end].
C26_ChunkRowsWellFormed ==
    /\ \A i \in 1..Len(chunks) :
          /\ chunks[i].chunk_index = i - 1
          /\ 0 <= chunks[i].char_start
          /\ chunks[i].char_start < chunks[i].char_end
          /\ chunks[i].char_end <= Len(text)
          /\ chunks[i].text = SubSeq(text, chunks[i].char_start + 1, chunks[i].char_end)
          /\ i > 1 => /\ chunks[i - 1].char_start <= chunks[i].char_start
                      /\ chunks[i - 1].char_end <= chunks[i].char_end
    /\ \A i \in 1..Len(new_chunks) : new_chunks[i].chunk_index = i - 1
    /\ \A d \in AllDocuments :
          LET rows == {c \in AllChunks : c.document_id = d.id}
          IN /\ {c.chunk_index : c \in rows} = 0..(Cardinality(rows) - 1)
             /\ \A c \in rows :
                   /\ 0 <= c.char_start
                   /\ c.char_start < c.char_end
                   /\ c.char_end <= Len(d.extracted_text)
                   /\ c.chunk_text = SubSeq(d.extracted_text, c.char_start + 1, c.char_end)
             /\ \A c1 \in rows : \A c2 \in rows :
                   c1.chunk_index <= c2.chunk_index =>
                       /\ c1.char_start <= c2.char_start
                       /\ c1.char_end <= c2.char_end

\* Two documents of two chunks each are stored.
C26_Witness ==
    /\ Cardinality(documents) = 2
    /\ Cardinality(document_chunks) >= 4
    /\ \E c \in document_chunks : c.chunk_index = 1 /\ c.char_start = 800 /\ c.char_end = 1001

----------------------------------------------------------------------------
(* Claims: /extract and get_db *)

\* The stored results of the document the requests name.
ResultsOf(document_id) == {x \in extraction_results : x.document_id = document_id}

\* C29: for any interleaving of /extract requests for the same document, at
\* most one ExtractionResult is ever stored for that document, and a request
\* that arrives once one is stored returns a stored result without invoking
\* the generation model.
C29_AtMostOneExtractionResult ==
    /\ Cardinality(ResultsOf("d1")) <= 1
    /\ \A r \in Requests :
          ex_stored_at_call[r] /\ ex_status[r] = "200" =>
             /\ ex_gen_calls[r] = 0
             /\ ex_response[r] \subseteq extraction_results

\* C30: get_db makes at most 3 connection attempts, every session it opened
\* is closed when it has finished, and once it has yielded a session its loop
\* opens no further session, whatever the handler raises.
C30_GetDbYieldsOnceAndStops ==
    /\ [](\A r \in Requests :
             /\ db_opened[r] <= get_db_max_retries
             /\ ex_pc[r] = "done" => db_open[r] = {})
    /\ [][\A r \in Requests :
             db_yields[r] >= 1 => /\ db_opened'[r] = db_opened[r]
                                  /\ db_yields'[r] = db_yields[r]]_vars

----------------------------------------------------------------------------
(* Claims: ownership of chunks *)

\* The committed documents a chunk row refers to.
OwnersOf(c) == {d \in documents : d.id = c.document_id}

\* The ids the ingest request has committed so far and that are no longer in
\* the documents table.
DeletedIds ==
    {document_ids[i] : i \in 1..Len(document_ids)} \ {d.id : d \in documents}

\* C21: after any sequence of ingests and document deletions, every stored
\* chunk belongs to exactly one existing document: no stored chunk refers to
\* a deleted document or to one that was never committed, and the step that
\* deletes a document deletes all its chunks.
C21_ChunksHaveOneDocument ==
    /\ [](\A c \in document_chunks :
             /\ Cardinality(OwnersOf(c)) = 1
             /\ c.document_id \notin DeletedIds)
    /\ [][\A d \in documents :
             d \notin documents' =>
                \A c \in document_chunks' : c.document_id # d.id]_vars

\* The first document of the request, with two chunks, was committed and then
\* deleted; the second document is committed and its chunks are stored.
C21_Witness ==
    /\ Len(document_ids) = 2
    /\ DeletedIds = {document_ids[1]}
    /\ Cardinality(document_chunks) = 2

----------------------------------------------------------------------------
(* Claims: /ask leaves the store alone *)

\* C23: an /ask request is read-only with respect to persisted data: each of
\* its steps, on the path that finds the document and its chunks and on the
\* path that ends with "not found", leaves the stored documents and chunks,
\* embeddings included, and the open transaction of a concurrent ingest as
\* they were.
C23_AskIsReadOnly ==
    [][rd_pc' # rd_pc =>
          /\ documents' = documents
          /\ document_chunks' = document_chunks
          /\ sessionVars' = sessionVars]_vars

\* The /ask request has read a stored document and its chunks, one of them
\* with an embedding, and the rows are still in the store as it read them.
C23_Witness ==
    /\ rd_pc = "done"
    /\ rd_doc # {}
    /\ rd_doc \subseteq documents
    /\ rd_chunks # {}
    /\ rd_chunks \subseteq document_chunks
    /\ \E c \in rd_chunks : c.embedding # None

====
